---------------------------- MODULE Spec2Model ----------------------------
(***************************************************************************)
(* Model of the spreadsheet import scripts of property_dashboard:          *)
(*   - parse_trident_properties.py: parse_trident_properties, parse_price, *)
(*     parse_date,                                                         *)
(*     get_stl_coordinates, generate_tasks_for_property;                   *)
(*   - extract_properties.py: extract_excel_data, process_sheet_data.      *)
(* Python strings are sequences of one-character strings, so that strip,   *)
(* lower, replace, `in` and endswith are computed character by character.  *)
(***************************************************************************)
EXTENDS Integers, Sequences, FiniteSets, TLC

VARIABLES
    prog,        \* which script runs: "trident", "extract", or "fn" (a helper called alone)
    sheet,       \* sheet_name of the sheet being processed
    cols,        \* the sheet's column labels, in column order (extract only)
    rows,        \* the input rows iterated so far, in order
    properties,  \* the `properties` list
    tasks,       \* the `tasks` list
    failed,      \* indices of the rows whose processing reached the except clause
    nextId,      \* number of uuid4 values drawn so far
    pc,          \* position of the script
    arg,         \* argument of the helper called alone
    res,         \* its result
    res2,        \* result of the helper applied to its own output
    padYear,     \* whether the platform's strftime pads %Y to four digits
    files,       \* names of the output files that exist on disk
    book,        \* sheet names of the workbook iterated so far, in order
    hashOf,      \* hash(address) % 1000 of the running process, per address
    run,         \* which run of the script is under way
    coords       \* the get_stl_coordinates calls made so far, over all runs

vars == <<prog, sheet, cols, rows, properties, tasks, failed, nextId, pc,
          arg, res, res2, padYear, files, book, hashOf, run, coords>>

coordVars == <<hashOf, run, coords>>

-----------------------------------------------------------------------------
(* Bounds of the model *)

\* longest price text enumerated exhaustively
MaxPriceLen == 4

\* rows per sheet
MaxRows == 2

\* sheets per workbook
MaxSheets == 2

\* get_stl_coordinates calls over the runs compared
MaxCalls == 3

-----------------------------------------------------------------------------
(* Python str operations *)

UpperLetters == <<"A", "B", "C", "D", "E", "F", "G", "H", "I", "J", "K", "L", "M", "N", "O", "P", "Q", "R", "S", "T", "U", "V", "W", "X", "Y", "Z">>
LowerLetters == <<"a", "b", "c", "d", "e", "f", "g", "h", "i", "j", "k", "l", "m", "n", "o", "p", "q", "r", "s", "t", "u", "v", "w", "x", "y", "z">>
Digits == <<"0", "1", "2", "3", "4", "5", "6", "7", "8", "9">>

\* one character of str.lower()
LowerChar(c) ==
    IF \E i \in DOMAIN UpperLetters : UpperLetters[i] = c
    THEN LowerLetters[CHOOSE i \in DOMAIN UpperLetters : UpperLetters[i] = c]
    ELSE c

\* str.lower()
Lower(s) == [i \in 1..Len(s) |-> LowerChar(s[i])]

IsSpace(c) == c = " "

RECURSIVE LStrip(_)
LStrip(s) == IF s # <<>> /\ IsSpace(Head(s)) THEN LStrip(Tail(s)) ELSE s

RECURSIVE RStrip(_)
RStrip(s) ==
    IF s # <<>> /\ IsSpace(s[Len(s)]) THEN RStrip(SubSeq(s, 1, Len(s) - 1)) ELSE s

\* str.strip()
Strip(s) == RStrip(LStrip(s))

\* `sub in s`
Contains(s, sub) ==
    \E i \in 0..(Len(s) - Len(sub)) : SubSeq(s, i + 1, i + Len(sub)) = sub

\* s.endswith(p)
EndsWith(s, p) ==
    Len(p) <= Len(s) /\ SubSeq(s, Len(s) - Len(p) + 1, Len(s)) = p

\* s.replace(c, '')
RemoveChar(s, c) == SelectSeq(s, LAMBDA x : x # c)

\* s.replace(a, b) for one-character a and b
ReplaceChar(s, a, b) == [i \in 1..Len(s) |-> IF s[i] = a THEN b ELSE s[i]]

\* index of the first whitespace of s, or Len(s) + 1
RECURSIVE FirstSpace(_, _)
FirstSpace(s, i) ==
    IF i > Len(s) \/ IsSpace(s[i]) THEN i ELSE FirstSpace(s, i + 1)

\* s.split()[0], for s with at least one non-blank character
FirstToken(s) == LET t == LStrip(s) IN SubSeq(t, 1, FirstSpace(t, 1) - 1)

\* the parts of s between occurrences of the character sep: s.split(sep)
RECURSIVE SplitOn(_, _)
SplitOn(s, sep) ==
    IF \E i \in 1..Len(s) : s[i] = sep
    THEN LET k == CHOOSE i \in 1..Len(s) :
                      s[i] = sep /\ \A j \in 1..(i - 1) : s[j] # sep
         IN  <<SubSeq(s, 1, k - 1)>> \o SplitOn(SubSeq(s, k + 1, Len(s)), sep)
    ELSE <<s>>

IsDigit(c) == \E i \in DOMAIN Digits : Digits[i] = c
DigitVal(c) == (CHOOSE i \in DOMAIN Digits : Digits[i] = c) - 1
AllDigits(s) == \A i \in 1..Len(s) : IsDigit(s[i])

\* value of a run of decimal digits (0 for the empty run)
RECURSIVE DigitsVal(_)
DigitsVal(s) ==
    IF s = <<>> THEN 0
    ELSE 10 * DigitsVal(SubSeq(s, 1, Len(s) - 1)) + DigitVal(s[Len(s)])

RECURSIVE Pow10(_)
Pow10(n) == IF n = 0 THEN 1 ELSE 10 * Pow10(n - 1)

\* str(n) of a natural number
RECURSIVE NatToStr(_)
NatToStr(n) ==
    IF n < 10 THEN <<Digits[n + 1]>>
    ELSE NatToStr(n \div 10) \o <<Digits[(n % 10) + 1]>>

\* str(n) of an int
IntToStr(n) == IF n < 0 THEN <<"-">> \o NatToStr(-n) ELSE NatToStr(n)

\* n in decimal, zero-padded to at least w digits (%02d, %04d)
RECURSIVE ZeroPad(_, _)
ZeroPad(s, w) == IF Len(s) >= w THEN s ELSE ZeroPad(<<"0">> \o s, w)

-----------------------------------------------------------------------------
(* Values: spreadsheet cells and Python results *)

\* a missing cell: NaN / NaT
NaN == [t |-> "nan", s |-> <<>>]
\* a text cell
Text(s) == [t |-> "str", s |-> s]
\* a date cell, which pandas hands over as a datetime: s is its date, as
\* year-month-day in decimal
DateCell(ymd) == [t |-> "dt", s |-> ymd]

\* Python None
None == [t |-> "none", s |-> <<>>]
\* a Python int
PyInt(n) == [t |-> "int", s |-> <<n>>]
\* a Python float, as the fraction num/den in lowest terms, den > 0
PyFloat(num, den) == [t |-> "float", s |-> <<num, den>>]
\* float('inf'), float('-inf') and float('nan'): den = 0 and num = 1, -1, 0
FloatInf(neg) == [t |-> "float", s |-> <<IF neg THEN -1 ELSE 1, 0>>]
FloatNan == [t |-> "float", s |-> <<0, 0>>]
\* the year, month and day of a date cell
DateFields(v) ==
    LET f == SplitOn(v.s, "-") IN <<DigitsVal(f[1]), DigitsVal(f[2]), DigitsVal(f[3])>>

\* pd.isna(v)
IsNa(v) == v.t \in {"nan", "none"}

\* str(v) of a cell or result
Str(v) ==
    CASE v.t = "nan" -> <<"n", "a", "n">>
      [] v.t = "none" -> <<"N", "o", "n", "e">>
      [] v.t = "int" -> IntToStr(v.s[1])
      [] v.t = "dt" -> ZeroPad(NatToStr(DateFields(v)[1]), 4) \o <<"-">>
                       \o ZeroPad(NatToStr(DateFields(v)[2]), 2) \o <<"-">>
                       \o ZeroPad(NatToStr(DateFields(v)[3]), 2) \o <<" ", "0", "0", ":", "0", "0", ":", "0", "0">>
      [] OTHER -> v.s

-----------------------------------------------------------------------------
(* float(text) and int(float) *)

Abs(n) == IF n < 0 THEN -n ELSE n

RECURSIVE Gcd(_, _)
Gcd(a, b) == IF b = 0 THEN a ELSE Gcd(b, a % b)

\* the float num/den, in lowest terms
Fraction(num, den) ==
    LET g == Gcd(Abs(num), den) IN PyFloat(num \div g, den \div g)

\* float(text): [ok |-> FALSE] stands for ValueError.  Python accepts an optional
\* sign, then inf, infinity or nan (any case) or decimal digits with at most one
\* point and at least one digit, with blanks around; exponents and digit-group
\* underscores are outside the texts enumerated here.
FloatParse(text) ==
    LET s1 == Strip(text)
        signed == s1 # <<>> /\ Head(s1) \in {"-", "+"}
        neg == s1 # <<>> /\ Head(s1) = "-"
        body == IF signed THEN Tail(s1) ELSE s1
        parts == SplitOn(body, ".")
        ip == parts[1]
        fp == IF Len(parts) > 1 THEN parts[2] ELSE <<>>
        mag == DigitsVal(ip \o fp)
    IN  IF Lower(body) \in {<<"i", "n", "f">>, <<"i", "n", "f", "i", "n", "i", "t", "y">>}
        THEN [ok |-> TRUE, v |-> FloatInf(neg)]
        ELSE IF Lower(body) = <<"n", "a", "n">>
        THEN [ok |-> TRUE, v |-> FloatNan]
        ELSE IF Len(parts) <= 2 /\ AllDigits(ip) /\ AllDigits(fp) /\ ip \o fp # <<>>
        THEN [ok |-> TRUE, v |-> Fraction(IF neg THEN -mag ELSE mag, Pow10(Len(fp)))]
        ELSE [ok |-> FALSE, v |-> None]

IsFinite(f) == f.s[2] # 0

\* f * 1000.  The double product equals the decimal product for every text within
\* MaxPriceLen + 1 characters (the first text where rounding shows is 1.001k).
TimesThousand(f) ==
    IF IsFinite(f) THEN Fraction(f.s[1] * 1000, f.s[2]) ELSE f

\* int(f) inside try/except: truncation toward zero; int(nan) raises ValueError and
\* int(inf) OverflowError, both caught, giving None
IntOrNone(f) ==
    IF ~IsFinite(f) THEN None
    ELSE IF f.s[1] < 0 THEN PyInt(-((-f.s[1]) \div f.s[2]))
    ELSE PyInt(f.s[1] \div f.s[2])

-----------------------------------------------------------------------------
(* parse_trident_properties.py: parse_price *)

\* the K branch taken whatever the text ends with
ParsePriceNoSuffixTest(price_value) ==
    IF IsNa(price_value) \/ Strip(Str(price_value)) = <<>> THEN None
    ELSE LET price_str == Strip(RemoveChar(RemoveChar(Str(price_value), "$"), ","))
             f == FloatParse(SubSeq(price_str, 1, Len(price_str) - 1))
         IN  IF f.ok THEN IntOrNone(TimesThousand(f.v)) ELSE None

ParsePrice(price_value) ==
    IF IsNa(price_value) \/ Strip(Str(price_value)) = <<>> THEN None
    ELSE LET price_str == Strip(RemoveChar(RemoveChar(Str(price_value), "$"), ","))
         IN  IF EndsWith(Lower(price_str), <<"k">>)
             THEN LET f == FloatParse(SubSeq(price_str, 1, Len(price_str) - 1))
                  IN  IF f.ok THEN IntOrNone(TimesThousand(f.v)) ELSE None
             ELSE LET f == FloatParse(price_str)
                  IN  IF f.ok THEN IntOrNone(f.v) ELSE None

-----------------------------------------------------------------------------
(* parse_trident_properties.py: parse_date *)

IsLeap(y) == (y % 4 = 0 /\ y % 100 # 0) \/ y % 400 = 0

DaysInMonth(y, m) ==
    IF m = 2 THEN (IF IsLeap(y) THEN 29 ELSE 28)
    ELSE IF m \in {4, 6, 9, 11} THEN 30 ELSE 31

\* the patterns tried, in order: field order and separator
DateFormats ==
    << [order |-> "YMD", sep |-> "-"],     \* %Y-%m-%d
       [order |-> "MDY", sep |-> "/"],     \* %m/%d/%Y
       [order |-> "MDY", sep |-> "-"],     \* %m-%d-%Y
       [order |-> "YMD", sep |-> "/"] >>   \* %Y/%m/%d

\* strptime's directives: %Y is four digits; %m and %d are one or two digits
\* within 1..12 and 1..31
MatchesYear(f) == Len(f) = 4 /\ AllDigits(f)
MatchesMonth(f) == Len(f) \in {1, 2} /\ AllDigits(f) /\ DigitsVal(f) \in 1..12
MatchesDay(f) == Len(f) \in {1, 2} /\ AllDigits(f) /\ DigitsVal(f) \in 1..31

\* datetime.strptime(token, fmt): [ok |-> FALSE] stands for ValueError
Strptime(token, fmt) ==
    LET parts == SplitOn(token, fmt.sep)
        yf == IF fmt.order = "YMD" THEN parts[1] ELSE parts[3]
        mf == IF fmt.order = "YMD" THEN parts[2] ELSE parts[1]
        df == IF fmt.order = "YMD" THEN parts[3] ELSE parts[2]
    IN  IF Len(parts) = 3 /\ MatchesYear(yf) /\ MatchesMonth(mf) /\ MatchesDay(df)
           /\ DigitsVal(yf) >= 1
           /\ DigitsVal(df) <= DaysInMonth(DigitsVal(yf), DigitsVal(mf))
        THEN [ok |-> TRUE, y |-> DigitsVal(yf), m |-> DigitsVal(mf), d |-> DigitsVal(df)]
        ELSE [ok |-> FALSE, y |-> 0, m |-> 0, d |-> 0]

\* month and day written in the other order
StrftimeDayFirst(y, m, d, pad) ==
    (IF pad THEN ZeroPad(NatToStr(y), 4) ELSE NatToStr(y))
    \o <<"-">> \o ZeroPad(NatToStr(d), 2) \o <<"-">> \o ZeroPad(NatToStr(m), 2)

\* d.strftime('%Y-%m-%d'): the C library pads %Y to four digits on some
\* platforms and not on others (glibc prints the year 999 as 999)
Strftime(y, m, d, pad) ==
    (IF pad THEN ZeroPad(NatToStr(y), 4) ELSE NatToStr(y))
    \o <<"-">> \o ZeroPad(NatToStr(m), 2) \o <<"-">> \o ZeroPad(NatToStr(d), 2)

\* the for loop over the formats, from the i-th on
RECURSIVE TryFormats(_, _, _)
TryFormats(token, i, pad) ==
    IF i > Len(DateFormats) THEN None
    ELSE LET p == Strptime(token, DateFormats[i])
         IN  IF p.ok THEN Text(Strftime(p.y, p.m, p.d, pad))
             ELSE TryFormats(token, i + 1, pad)

ParseDate(date_value, pad) ==
    IF IsNa(date_value) THEN None
    ELSE IF date_value.t = "dt"
    THEN Text(Strftime(DateFields(date_value)[1], DateFields(date_value)[2],
                       DateFields(date_value)[3], pad))
    ELSE LET date_str == Strip(Str(date_value))
         IN  IF date_str = <<>> \/ Lower(date_str) = <<"n", "a", "n">> THEN None
             ELSE TryFormats(FirstToken(date_str), 1, pad)

-----------------------------------------------------------------------------
(* parse_trident_properties.py: one row of the main loop *)

\* the status text kept whatever it is: the pre and uc branches left out
TridentStatusRawOnly(cell) ==
    LET status == Strip(Str(cell))
    IN  IF Lower(status) = <<"n", "a", "n">> \/ status = <<>> THEN <<"A", "c", "t", "i", "v", "e">> ELSE status

\* lines 52-58; str(NaN) is 'nan'
TridentStatus(cell) ==
    LET status == Strip(Str(cell))
    IN  IF Lower(status) = <<"p", "r", "e">> THEN <<"H", "o", "l", "d">>
        ELSE IF Lower(status) = <<"u", "c">> \/ Contains(Lower(status), <<"c", "o", "n", "t", "r", "a", "c", "t">>)
        THEN <<"U", "n", "d", "e", "r", " ", "C", "o", "n", "t", "r", "a", "c", "t">>
        ELSE IF Lower(status) = <<"n", "a", "n">> \/ status = <<>> THEN <<"A", "c", "t", "i", "v", "e">>
        ELSE status

\* lines 80-88
PropertyType(cell) ==
    LET prop_type_raw == Lower(Strip(Str(cell)))
    IN  IF Contains(prop_type_raw, <<"s", "i", "n", "g", "l", "e">>) THEN <<"S", "i", "n", "g", "l", "e", " ", "F", "a", "m", "i", "l", "y">>
        ELSE IF Contains(prop_type_raw, <<"d", "u", "p", "l", "e", "x">>) \/ Contains(prop_type_raw, <<"2", " ", "f", "a", "m", "i", "l", "y">>)
        THEN <<"D", "u", "p", "l", "e", "x">>
        ELSE IF Contains(prop_type_raw, <<"f", "a", "m", "i", "l", "y">>) \/ Contains(prop_type_raw, <<"m", "u", "l", "t", "i">>)
        THEN <<"C", "o", "m", "m", "e", "r", "c", "i", "a", "l">>
        ELSE <<"S", "i", "n", "g", "l", "e", " ", "F", "a", "m", "i", "l", "y">>

\* Commercial left out of the list
WorkflowTypeDuplexOnly(property_type) ==
    IF property_type \in {<<"D", "u", "p", "l", "e", "x">>} THEN "Investor" ELSE "Conventional"

\* line 91
WorkflowType(property_type) ==
    IF property_type \in {<<"D", "u", "p", "l", "e", "x">>, <<"C", "o", "m", "m", "e", "r", "c", "i", "a", "l">>} THEN "Investor" ELSE "Conventional"

\* lines 103-104
IsRented(cell) == Lower(Strip(Str(cell))) \in {<<"y">>, <<"y", "e", "s">>, <<"t", "r", "u", "e">>, <<"1">>}

\* `a or b` of two parse_price results: None and 0 are falsy
PyOr(a, b) == IF a.t = "none" \/ (a.t = "int" /\ a.s[1] = 0) THEN b ELSE a

\* property_obj, lines 110-130, for row number i with the uuid id.  The loan
\* fields, notes, coordinates and timestamps are left out.
TridentProperty(r, id, i, pad) ==
    [ row |-> i,
      id |-> id,
      address |-> Strip(Str(r.address)),
      closingDate |-> ParseDate(r.closing, pad),
      underContractPrice |-> ParsePrice(r.uc),
      startingListPrice |-> ParsePrice(r.starting),
      currentListPrice |-> PyOr(ParsePrice(r.current), ParsePrice(r.starting)),
      status |-> TridentStatus(r.status),
      propertyType |-> PropertyType(r.kind),
      workflowType |-> WorkflowType(PropertyType(r.kind)),
      isRented |-> IsRented(r.rented),
      listingDate |-> ParseDate(r.listing, pad) ]

\* one task of generate_tasks_for_property
Task(property_id, n, title, priority, category, taskType) ==
    [ id |-> <<property_id, n>>, title |-> title, priority |-> priority,
      status |-> "Pending", category |-> category, propertyId |-> property_id,
      taskType |-> taskType, isAutoGenerated |-> TRUE ]

\* the Active branch left out
GenerateTasksNoActive(property_obj) ==
    IF property_obj.status = <<"H", "o", "l", "d">>
    THEN << Task(property_obj.id, 1, "Complete Pre-Listing Preparation", "High",
                 "Listing Prep", "listing-prep") >>
    ELSE IF property_obj.status = <<"U", "n", "d", "e", "r", " ", "C", "o", "n", "t", "r", "a", "c", "t">>
    THEN << Task(property_obj.id, 3, "Manage Contract Contingencies", "Urgent",
                 "Under Contract", "under-contract") >>
    ELSE <<>>

\* generate_tasks_for_property, lines 221-267
GenerateTasksForProperty(property_obj) ==
    IF property_obj.status = <<"H", "o", "l", "d">>
    THEN << Task(property_obj.id, 1, "Complete Pre-Listing Preparation", "High",
                 "Listing Prep", "listing-prep") >>
    ELSE IF property_obj.status = <<"A", "c", "t", "i", "v", "e">>
    THEN << Task(property_obj.id, 2, "Monitor Active Listing Performance", "Medium",
                 "Listing Prep", "listing-prep") >>
    ELSE IF property_obj.status = <<"U", "n", "d", "e", "r", " ", "C", "o", "n", "t", "r", "a", "c", "t">>
    THEN << Task(property_obj.id, 3, "Manage Contract Contingencies", "Urgent",
                 "Under Contract", "under-contract") >>
    ELSE <<>>

\* a row of the "List of Properties" sheet.  printable: whether the print of
\* line 138 can write the address to stdout (it raises UnicodeEncodeError on a
\* character stdout cannot encode, such as a lone surrogate under UTF-8).
TridentRowOf(address, status, kind, current, starting, uc, listing, closing, rented, printable) ==
    [ address |-> address, status |-> status, kind |-> kind, current |-> current,
      starting |-> starting, uc |-> uc, listing |-> listing, closing |-> closing,
      rented |-> rented, printable |-> printable ]

BaseRow ==
    TridentRowOf(Text(<<"1", "2", " ", "E", "l", "m", " ", "S", "t">>), Text(<<"A", "c", "t", "i", "v", "e">>), Text(<<"S", "i", "n", "g", "l", "e">>), Text(<<"$", "2", "5", "0", ",", "0", "0", "0">>),
                 NaN, NaN, NaN, NaN, NaN, TRUE)

TridentRows ==
    {[BaseRow EXCEPT !.address = a] :
        a \in {NaN, Text(<<" ", " ">>), Text(<<"N", "a", "n">>), Text(<<" ", "7", " ", "O", "a", "k", " ", "A", "v", "e", " ">>)}}
    \cup {[BaseRow EXCEPT !.status = x] :
        x \in {NaN, Text(<<" ">>), Text(<<"P", "r", "e">>), Text(<<"U", "C">>), Text(<<"U", "n", "d", "e", "r", " ", "C", "o", "n", "t", "r", "a", "c", "t">>),
               Text(<<"N", "A", "N">>), Text(<<"S", "o", "l", "d">>), Text(<<"C", "l", "o", "s", "e", "d">>)}}
    \cup {[BaseRow EXCEPT !.kind = k] :
        k \in {NaN, Text(<<"D", "u", "p", "l", "e", "x">>), Text(<<"2", " ", "F", "a", "m", "i", "l", "y">>), Text(<<"M", "u", "l", "t", "i">>), Text(<<"C", "o", "n", "d", "o">>)}}
    \cup {[BaseRow EXCEPT !.kind = Text(<<"M", "u", "l", "t", "i", "-", "F", "a", "m", "i", "l", "y">>), !.status = Text(<<"P", "e", "n", "d", "i", "n", "g">>)]}
    \cup {[BaseRow EXCEPT !.current = c[1], !.starting = c[2], !.uc = c[3]] :
        c \in {<<Text(<<"T", "B", "D">>), NaN, NaN>>, <<Text(<<"T", "B", "D">>), Text(<<"9", "5", "0", "0", "0">>), Text(<<"n", "/", "a">>)>>,
               <<Text(<<"1", "8", "0", "k">>), NaN, Text(<<"$", "1", ",", "2", "9", "9", ".", "9", "9">>)>>, <<NaN, NaN, Text(<<"i", "n", "f">>)>>,
               <<Text(<<"0">>), Text(<<"9", "5", "0", "0", "0">>), NaN>>}}
    \cup {[BaseRow EXCEPT !.listing = d[1], !.closing = d[2], !.rented = Text(<<"Y", "e", "s">>)] :
        d \in {<<Text(<<"2", "0", "2", "4", "-", "0", "3", "-", "1", "5">>), Text(<<"3", "/", "1", "5", "/", "2", "0", "2", "4", " ", "1", "0", ":", "3", "0">>)>>,
               <<DateCell(<<"2", "0", "2", "4", "-", "3", "-", "1", "5">>), Text(<<"T", "B", "D">>)>>,
               <<Text(<<"0", "9", "9", "9", "-", "0", "1", "-", "0", "5">>), Text(<<"2", "0", "2", "3", "-", "0", "2", "-", "3", "0">>)>>}}
    \cup {[BaseRow EXCEPT !.printable = FALSE, !.status = x] :
        x \in {Text(<<"A", "c", "t", "i", "v", "e">>), Text(<<"C", "l", "o", "s", "e", "d">>)}}

\* one iteration of the loop of lines 37-142 on row r
TridentRow(r) ==
    /\ prog = "trident" /\ pc = "rows" /\ Len(rows) < MaxRows
    /\ rows' = Append(rows, r)
    /\ IF IsNa(r.address) \/ Strip(Str(r.address)) = <<>>
       THEN \* line 41: continue
            UNCHANGED <<properties, tasks, failed, nextId>>
       ELSE /\ nextId' = nextId + 1                          \* line 44: uuid4
            /\ IF Lower(Strip(Str(r.address))) = <<"n", "a", "n">>
               THEN \* line 49: continue
                    UNCHANGED <<properties, tasks, failed>>
               ELSE LET property_obj ==
                            TridentProperty(r, nextId + 1, Len(rows) + 1, padYear)
                    IN  /\ properties' = Append(properties, property_obj)      \* line 132
                        /\ tasks' = tasks \o GenerateTasksForProperty(property_obj) \* line 136
                        \* line 138: print raises UnicodeEncodeError, caught at line 140
                        /\ failed' = IF r.printable THEN failed
                                     ELSE failed \cup {Len(rows) + 1}
    /\ UNCHANGED <<prog, sheet, cols, pc, arg, res, res2, padYear, files, book, coordVars>>

\* the loop is over: lines 144-162 write the JSON file and return
TridentSave ==
    /\ prog = "trident" /\ pc = "rows"
    /\ files' = files \cup {<<"t", "r", "i", "d", "e", "n", "t", "_", "p", "r", "o", "p", "e", "r", "t", "i", "e", "s", ".", "j", "s", "o", "n">>}      \* lines 147-148
    /\ pc' = "done"
    /\ UNCHANGED <<prog, sheet, cols, rows, properties, tasks, failed, nextId,
                   arg, res, res2, padYear, book, coordVars>>

-----------------------------------------------------------------------------
(* extract_properties.py: process_sheet_data *)

address_fields ==
    <<<<"a", "d", "d", "r", "e", "s", "s">>, <<"p", "r", "o", "p", "e", "r", "t", "y", "_", "a", "d", "d", "r", "e", "s", "s">>, <<"s", "t", "r", "e", "e", "t", "_", "a", "d", "d", "r", "e", "s", "s">>, <<"l", "o", "c", "a", "t", "i", "o", "n">>, <<"p", "r", "o", "p", "e", "r", "t", "y">>>>
client_fields == <<<<"c", "l", "i", "e", "n", "t">>, <<"s", "e", "l", "l", "e", "r">>, <<"o", "w", "n", "e", "r">>, <<"c", "l", "i", "e", "n", "t", "_", "n", "a", "m", "e">>>>
agent_fields == <<<<"a", "g", "e", "n", "t">>, <<"l", "i", "s", "t", "i", "n", "g", "_", "a", "g", "e", "n", "t">>, <<"s", "e", "l", "l", "i", "n", "g", "_", "a", "g", "e", "n", "t">>, <<"r", "e", "a", "l", "t", "o", "r">>>>
price_fields ==
    <<<<"p", "r", "i", "c", "e">>, <<"l", "i", "s", "t", "_", "p", "r", "i", "c", "e">>, <<"l", "i", "s", "t", "i", "n", "g", "_", "p", "r", "i", "c", "e">>, <<"a", "s", "k", "i", "n", "g", "_", "p", "r", "i", "c", "e">>, <<"a", "m", "o", "u", "n", "t">>>>
status_fields == <<<<"s", "t", "a", "t", "u", "s">>, <<"l", "i", "s", "t", "i", "n", "g", "_", "s", "t", "a", "t", "u", "s">>, <<"p", "r", "o", "p", "e", "r", "t", "y", "_", "s", "t", "a", "t", "u", "s">>>>

\* a key that property_data does not hold
Unset == [t |-> "unset", s |-> <<>>]

\* the inner loop `for col in row_dict.keys()`: the first column from the c-th on
\* whose lower-cased label contains the field, or 0
RECURSIVE FirstColumnWith(_, _, _)
FirstColumnWith(field, labels, c) ==
    IF c > Len(labels) THEN 0
    ELSE IF Contains(Lower(labels[c]), Lower(field)) THEN c
    ELSE FirstColumnWith(field, labels, c + 1)

\* the loops nested the other way round: the first column, from the c-th on,
\* whose label contains any of the fields
RECURSIVE ResolveColumnByColumn(_, _, _)
ResolveColumnByColumn(fields, labels, c) ==
    IF c > Len(labels) THEN 0
    ELSE IF \E k \in 1..Len(fields) : Contains(Lower(labels[c]), Lower(fields[k])) THEN c
    ELSE ResolveColumnByColumn(fields, labels, c + 1)

\* the outer loop `for field in ..._fields`, from the k-th field on, left at the
\* first field that some column matched: the column resolved, or 0
RECURSIVE ResolveColumn(_, _, _)
ResolveColumn(fields, labels, k) ==
    IF k > Len(fields) THEN 0
    ELSE LET c == FirstColumnWith(fields[k], labels, 1)
         IN  IF c # 0 THEN c ELSE ResolveColumn(fields, labels, k + 1)

\* df.fillna('') on one cell
FillNa(cell) == IF cell.t = "nan" THEN Text(<<>>) ELSE cell

\* str(row_dict[col]).strip() of the resolved column, or the key left unset
ResolvedText(fields, labels, filled) ==
    LET c == ResolveColumn(fields, labels, 1)
    IN  IF c = 0 THEN Unset ELSE Text(Strip(Str(filled[c])))

\* lines 107-111: a float, None for an empty text, the text itself when float() raises
SheetPrice(cell) ==
    LET price_val == Strip(RemoveChar(RemoveChar(Str(cell), "$"), ","))
        f == FloatParse(price_val)
    IN  IF price_val = <<>> THEN None
        ELSE IF f.ok THEN f.v
        ELSE Text(price_val)

\* lines 104-114
ResolvedPrice(labels, filled) ==
    LET c == ResolveColumn(price_fields, labels, 1)
    IN  IF c = 0 THEN Unset ELSE SheetPrice(filled[c])

\* lines 134-143: the default status of a sheet
SheetStatus(sheet_name) ==
    LET n == Lower(sheet_name)
    IN  IF Contains(n, <<"a", "c", "t", "i", "v", "e">>) THEN <<"A", "c", "t", "i", "v", "e">>
        ELSE IF Contains(n, <<"c", "o", "n", "t", "r", "a", "c", "t">>) THEN <<"U", "n", "d", "e", "r", " ", "C", "o", "n", "t", "r", "a", "c", "t">>
        ELSE IF Contains(n, <<"p", "e", "n", "d", "i", "n", "g">>) THEN <<"P", "e", "n", "d", "i", "n", "g">>
        ELSE IF Contains(n, <<"c", "l", "o", "s", "e", "d">>) THEN <<"C", "l", "o", "s", "e", "d">>
        ELSE <<"A", "c", "t", "i", "v", "e">>

\* line 133: the default is taken when the key is unset or its text is empty
DefaultedStatus(status, sheet_name) ==
    IF status.t = "unset" \/ status.s = <<>> THEN SheetStatus(sheet_name) ELSE status.s

\* lines 127-130
SheetWorkflowType(sheet_name) ==
    IF Contains(Lower(sheet_name), <<"i", "n", "v", "e", "s", "t", "o", "r">>) THEN "Investor" ELSE "Conventional"

\* property_data of the row at index i - 1, lines 63-143, without raw_data
SheetProperty(filled, sheet_name, labels, i) ==
    [ source_sheet |-> sheet_name,
      row_number |-> i,
      address |-> ResolvedText(address_fields, labels, filled),
      client_name |-> ResolvedText(client_fields, labels, filled),
      selling_agent |-> ResolvedText(agent_fields, labels, filled),
      list_price |-> ResolvedPrice(labels, filled),
      status |-> DefaultedStatus(ResolvedText(status_fields, labels, filled), sheet_name),
      workflow_type |-> SheetWorkflowType(sheet_name) ]

SheetNames ==
    {<<"A", "c", "t", "i", "v", "e", " ", "C", "o", "n", "t", "r", "a", "c", "t", "s">>, <<"C", "l", "o", "s", "e", "d", " ", "L", "i", "s", "t", "i", "n", "g", "s">>, <<"I", "n", "v", "e", "s", "t", "o", "r", " ", "C", "o", "n", "t", "r", "a", "c", "t", "s">>, <<"P", "e", "n", "d", "i", "n", "g", " ", "C", "l", "o", "s", "e", "d">>,
     <<"S", "h", "e", "e", "t", "1">>}

\* the sheets read: the column labels and the rows drawn from
Layouts ==
    { [ cols |-> <<<<"A", "d", "d", "r", "e", "s", "s">>, <<"S", "t", "a", "t", "u", "s">>, <<"P", "r", "i", "c", "e">>, <<"A", "g", "e", "n", "t">>, <<"C", "l", "i", "e", "n", "t">>>>,
        rows |-> { <<Text(<<"1", "2", " ", "E", "l", "m", " ", "S", "t">>), Text(<<"A", "c", "t", "i", "v", "e">>), Text(<<"$", "2", "5", "0", ",", "0", "0", "0">>), Text(<<"K", "i", "m">>), Text(<<"L", "e", "e">>)>>,
                   <<NaN, Text(<<"S", "o", "l", "d">>), Text(<<"T", "B", "D">>), NaN, NaN>>,
                   <<Text(<<" ", "7", " ", "O", "a", "k", " ", "A", "v", "e", " ">>), NaN, NaN, NaN, NaN>>,
                   <<Text(<<"3", " ", "P", "i", "n", "e", " ", "R", "d">>), Text(<<"P", "r", "e">>), Text(<<"1", "8", "0", "k">>), NaN, Text(<<"L", "e", "e">>)>>,
                   <<Text(<<"5", " ", "A", "s", "h", " ", "C", "t">>), Text(<<" ">>), Text(<<"0">>), Text(<<"K", "i", "m">>), NaN>>,
                   <<NaN, NaN, NaN, NaN, NaN>> } ],
      [ cols |-> <<<<"P", "r", "o", "p", "e", "r", "t", "y", " ", "S", "t", "a", "t", "u", "s">>, <<"P", "r", "o", "p", "e", "r", "t", "y", " ", "A", "d", "d", "r", "e", "s", "s">>, <<"A", "s", "k", "i", "n", "g", " ", "P", "r", "i", "c", "e">>, <<"L", "i", "s", "t", " ", "P", "r", "i", "c", "e">>,
                   <<"L", "i", "s", "t", "i", "n", "g", " ", "A", "g", "e", "n", "t">>>>,
        rows |-> { <<Text(<<"U", "C">>), Text(<<"9", " ", "F", "i", "r", " ", "L", "n">>), Text(<<"$", "9", "9", ",", "5", "0", "0", ".", "5", "0">>), Text(<<"9", "7", "0", "0", "0">>), Text(<<"K", "i", "m">>)>>,
                   <<NaN, Text(<<"9", " ", "F", "i", "r", " ", "L", "n">>), NaN, Text(<<"9", "7", "0", "0", "0">>), NaN>>,
                   <<Text(<<"C", "l", "o", "s", "e", "d">>), NaN, Text(<<"c", "a", "l", "l">>), NaN, NaN>> } ],
      [ cols |-> <<<<"P", "r", "o", "p", "e", "r", "t", "y">>, <<"L", "o", "c", "a", "t", "i", "o", "n">>, <<"O", "w", "n", "e", "r">>, <<"S", "e", "l", "l", "e", "r">>, <<"A", "m", "o", "u", "n", "t">>, <<"R", "e", "a", "l", "t", "o", "r">>>>,
        rows |-> { <<Text(<<"L", "o", "t", " ", "4">>), Text(<<"2", "1", " ", "B", "a", "y", " ", "R", "d">>), Text(<<"A", "n", "n">>), Text(<<"B", "o", "b">>), Text(<<"1", "2", "0", "0", "0", "0">>), Text(<<"C", "y">>)>>,
                   <<Text(<<"L", "o", "t", " ", "5">>), NaN, NaN, Text(<<"B", "o", "b">>), Text(<<"i", "n", "f">>), NaN>> } ],
      [ cols |-> <<<<"N", "o", "t", "e", "s">>, <<"Z", "i", "p">>>>,
        rows |-> { <<Text(<<"v", "a", "c", "a", "n", "t">>), Text(<<"6", "3", "1", "0", "1">>)>>,
                   <<NaN, Text(<<"6", "3", "1", "0", "2">>)>> } ],
      [ cols |-> <<<<"M", "a", "i", "l", "i", "n", "g", " ", "A", "d", "d", "r", "e", "s", "s">>, <<"A", "d", "d", "r", "e", "s", "s">>, <<"S", "T", "A", "T", "U", "S">>, <<"S", "a", "l", "e", " ", "P", "r", "i", "c", "e">>, <<"P", "r", "i", "c", "e">>>>,
        rows |-> { <<Text(<<"P", "O", " ", "B", "o", "x", " ", "1">>), Text(<<"1", " ", "M", "a", "i", "n", " ", "S", "t">>), Text(<<"P", "e", "n", "d", "i", "n", "g">>), Text(<<"$", "5">>), Text(<<"$", "6">>)>>,
                   <<NaN, Text(<<"1", " ", "M", "a", "i", "n", " ", "S", "t">>), Text(<<"N", "A", "N">>), NaN, Text(<<"7">>)>> } ] }

RowsFor(labels) == (CHOOSE L \in Layouts : L.cols = labels).rows

\* one iteration of the loop of lines 60-149 on the raw row r, after the
\* dropna(how='all') and fillna('') of lines 55-56
ExtractRow(r) ==
    /\ prog = "extract" /\ pc = "rows" /\ Len(rows) < MaxRows
    /\ rows' = Append(rows, r)
    /\ IF \A c \in 1..Len(r) : r[c].t = "nan"
       THEN \* line 55: the row is dropped before the loop
            UNCHANGED properties
       ELSE properties' =
                Append(properties,
                       SheetProperty([c \in 1..Len(r) |-> FillNa(r[c])], sheet, cols,
                                     Len(rows) + 1))
    /\ UNCHANGED <<prog, sheet, cols, tasks, failed, nextId, pc, arg, res, res2, padYear,
                   files, book, coordVars>>

\* line 152: return properties
ExtractReturn ==
    /\ prog = "extract" /\ pc = "rows"
    /\ pc' = "done"
    /\ UNCHANGED <<prog, sheet, cols, rows, properties, tasks, failed, nextId,
                   arg, res, res2, padYear, files, book, coordVars>>

-----------------------------------------------------------------------------
(* The two scripts *)

\* get_stl_coordinates is modelled where it is called alone
NoCoords == hashOf = <<>> /\ run = 0 /\ coords = <<>>

Init ==
    /\ pc = "rows" /\ rows = <<>> /\ properties = <<>> /\ tasks = <<>>
    /\ failed = {} /\ nextId = 0
    /\ arg = NaN /\ res = None /\ res2 = None
    /\ files = {} /\ book = <<>> /\ NoCoords
    /\ \/ /\ prog = "trident"
          /\ sheet = <<"L", "i", "s", "t", " ", "o", "f", " ", "P", "r", "o", "p", "e", "r", "t", "i", "e", "s">>      \* line 14
          /\ cols = <<>>
          /\ padYear \in BOOLEAN
       \/ /\ prog = "extract"
          /\ sheet \in SheetNames
          /\ \E L \in Layouts : cols = L.cols
          /\ padYear = TRUE                        \* strftime is never called

Next ==
    \/ \E r \in TridentRows : TridentRow(r)
    \/ TridentSave
    \/ prog = "extract" /\ \E r \in RowsFor(cols) : ExtractRow(r)
    \/ ExtractReturn

Spec == Init /\ [][Next]_vars

-----------------------------------------------------------------------------
(* The helpers called alone: parse_price and parse_date on enumerated arguments *)

\* all sequences over A of length at most n
SeqsUpTo(A, n) == UNION {[1..k -> A] : k \in 0..n}

PriceAlphabet == {"0", "1", ".", "k", "K", "$", ",", " ", "-", "x"}

PriceExamples ==
    {<<"$", "2", "5", "0", ",", "0", "0", "0">>, <<"1", "8", "0", "k">>, <<"n", "/", "a">>, <<"2", ".", "5", "K">>, <<"$", "1", ",", "2", "9", "9", ".", "9", "9">>, <<"-", "0", ".", "9">>, <<"n", "a", "n">>, <<"i", "n", "f">>,
     <<"T", "B", "D">>, <<"2", "5", "0", "0", "0", "0", ".", "0">>, <<"9", "k", " ">>, <<"$", " ", "7", "5", " ", "k">>}

PriceArgs ==
    {NaN} \cup {Text(s) : s \in SeqsUpTo(PriceAlphabet, MaxPriceLen) \cup PriceExamples}

YearTexts == {<<"2", "0", "2", "4">>, <<"2", "0", "2", "3">>, <<"1", "0", "0", "0">>, <<"0", "9", "9", "9">>, <<"9", "9", "9">>, <<"0", "0", "0", "1">>, <<"0", "0", "0", "0">>}
MonthTexts == {<<"1">>, <<"0", "1">>, <<"0", "2">>, <<"1", "2">>, <<"1", "3">>, <<"0", "0">>}
DayTexts == {<<"1">>, <<"0", "5">>, <<"2", "8">>, <<"2", "9">>, <<"3", "0">>, <<"3", "1">>, <<"3", "2">>, <<"0", "0">>}
DateSeps == {"-", "/"}
DateTails == {<<>>, <<" ", "1", "0", ":", "3", "0", ":", "0", "0">>}

DateArgs ==
    {NaN, DateCell(<<"2", "0", "2", "4", "-", "3", "-", "1", "5">>), DateCell(<<"9", "9", "9", "-", "1", "-", "5">>), Text(<<"n", "a", "n">>), Text(<<"N", "a", "N">>),
     Text(<<>>), Text(<<" ", " ">>), Text(<<"T", "B", "D">>), Text(<<"2", "0", "2", "4", "0", "3", "1", "5">>)}
    \cup {Text(y \o <<a>> \o m \o <<b>> \o d \o t) :
            y \in YearTexts, m \in MonthTexts, d \in DayTexts,
            a \in DateSeps, b \in DateSeps, t \in DateTails}
    \cup {Text(m \o <<a>> \o d \o <<b>> \o y \o t) :
            y \in YearTexts, m \in MonthTexts, d \in DayTexts,
            a \in DateSeps, b \in DateSeps, t \in DateTails}

\* no script running: the batch state of a helper called alone
NoBatch ==
    /\ prog = "fn" /\ sheet = <<>> /\ cols = <<>> /\ rows = <<>>
    /\ properties = <<>> /\ tasks = <<>> /\ failed = {} /\ nextId = 0
    /\ files = {} /\ book = <<>>

batchVars == <<prog, sheet, cols, rows, properties, tasks, failed, nextId, files, book>>

InitPrice ==
    /\ NoBatch
    /\ pc = "input" /\ arg \in PriceArgs /\ res = None /\ res2 = None
    /\ padYear = TRUE /\ NoCoords

\* parse_price(arg)
CallParsePrice ==
    /\ prog = "fn" /\ pc = "input"
    /\ res' = ParsePrice(arg)
    /\ pc' = "parsed"
    /\ UNCHANGED <<batchVars, arg, res2, padYear, coordVars>>

\* parse_price(str(n)) for the int n that parse_price returned
ReparsePrice ==
    /\ prog = "fn" /\ pc = "parsed" /\ res.t = "int"
    /\ res2' = ParsePrice(Text(Str(res)))
    /\ pc' = "reparsed"
    /\ UNCHANGED <<batchVars, arg, res, padYear, coordVars>>

NextPrice == CallParsePrice \/ ReparsePrice

SpecPrice == InitPrice /\ [][NextPrice]_vars

InitDate ==
    /\ NoBatch
    /\ pc = "input" /\ arg \in DateArgs /\ res = None /\ res2 = None
    /\ padYear \in BOOLEAN /\ NoCoords

\* parse_date(arg)
CallParseDate ==
    /\ prog = "fn" /\ pc = "input"
    /\ res' = ParseDate(arg, padYear)
    /\ pc' = "parsed"
    /\ UNCHANGED <<batchVars, arg, res2, padYear, coordVars>>

\* parse_date(s) for the text s that parse_date returned
ReparseDate ==
    /\ prog = "fn" /\ pc = "parsed" /\ res.t = "str"
    /\ res2' = ParseDate(res, padYear)
    /\ pc' = "reparsed"
    /\ UNCHANGED <<batchVars, arg, res, padYear, coordVars>>

NextDate == CallParseDate \/ ReparseDate

SpecDate == InitDate /\ [][NextDate]_vars

-----------------------------------------------------------------------------
(* The whole source: extract_excel_data over the sheets of a workbook, and the *)
(* read of parse_trident_properties                                           *)

\* line 30 of extract_properties.py
CsvFilename(sheet_name) ==
    <<"p", "r", "o", "p", "e", "r", "t", "i", "e", "s", "_">> \o ReplaceChar(Lower(sheet_name), " ", "_") \o <<".", "c", "s", "v">>

\* process_sheet_data(df, sheet_name) from the row at index i - 1 on: lines 55-152
RECURSIVE ProcessRows(_, _, _, _)
ProcessRows(df, sheet_name, labels, i) ==
    IF i > Len(df) THEN <<>>
    ELSE LET r == df[i]
             made == IF \A c \in 1..Len(r) : r[c].t = "nan"
                     THEN <<>>
                     ELSE <<SheetProperty([c \in 1..Len(r) |-> FillNa(r[c])],
                                          sheet_name, labels, i)>>
         IN  made \o ProcessRows(df, sheet_name, labels, i + 1)

ProcessSheetData(df, sheet_name, labels) == ProcessRows(df, sheet_name, labels, 1)

\* the data frames a sheet of the workbook holds
SheetFrames ==
    { [ cols |-> <<<<"A", "d", "d", "r", "e", "s", "s">>, <<"S", "t", "a", "t", "u", "s">>, <<"P", "r", "i", "c", "e">>, <<"A", "g", "e", "n", "t">>, <<"C", "l", "i", "e", "n", "t">>>>,
        df |-> << <<Text(<<"1", "2", " ", "E", "l", "m", " ", "S", "t">>), Text(<<"A", "c", "t", "i", "v", "e">>), Text(<<"$", "2", "5", "0", ",", "0", "0", "0">>), Text(<<"K", "i", "m">>), Text(<<"L", "e", "e">>)>>,
                  <<NaN, NaN, NaN, NaN, NaN>>,
                  <<Text(<<" ", "7", " ", "O", "a", "k", " ", "A", "v", "e", " ">>), NaN, NaN, NaN, NaN>> >> ],
      [ cols |-> <<<<"N", "o", "t", "e", "s">>, <<"Z", "i", "p">>>>,
        df |-> << <<Text(<<"v", "a", "c", "a", "n", "t">>), Text(<<"6", "3", "1", "0", "1">>)>> >> ],
      [ cols |-> <<<<"A", "d", "d", "r", "e", "s", "s">>, <<"S", "t", "a", "t", "u", "s">>, <<"P", "r", "i", "c", "e">>, <<"A", "g", "e", "n", "t">>, <<"C", "l", "i", "e", "n", "t">>>>,
        df |-> <<>> ] }

\* what handling a sheet runs into: nothing, an exception raised by the prints
\* of lines 24-27, an exception raised by df.to_csv at line 31
SheetFaults == {"none", "print", "to_csv"}

BookSheets ==
    {[name |-> n, cols |-> f.cols, df |-> f.df, fault |-> x] :
        n \in SheetNames, f \in SheetFrames, x \in SheetFaults}

InitSource ==
    /\ pc = "read" /\ rows = <<>> /\ properties = <<>> /\ tasks = <<>>
    /\ failed = {} /\ nextId = 0
    /\ arg = NaN /\ res = None /\ res2 = None
    /\ files = {} /\ book = <<>> /\ NoCoords
    /\ cols = <<>>
    /\ \/ /\ prog = "trident"
          /\ sheet = <<"L", "i", "s", "t", " ", "o", "f", " ", "P", "r", "o", "p", "e", "r", "t", "i", "e", "s">>
          /\ padYear \in BOOLEAN
       \/ /\ prog = "excel"
          /\ sheet = <<>>
          /\ padYear = TRUE

\* parse_trident_properties, line 14: read_excel returns
TridentRead ==
    /\ prog = "trident" /\ pc = "read"
    /\ pc' = "rows"
    /\ UNCHANGED <<batchVars, arg, res, res2, padYear, coordVars>>

\* parse_trident_properties, line 14: read_excel raises, and nothing catches it
TridentReadFails ==
    /\ prog = "trident" /\ pc = "read"
    /\ pc' = "raised"
    /\ UNCHANGED <<batchVars, arg, res, res2, padYear, coordVars>>

\* extract_excel_data, lines 14-21: read_excel returns
ExcelRead ==
    /\ prog = "excel" /\ pc = "read"
    /\ pc' = "sheets"
    /\ UNCHANGED <<batchVars, arg, res, res2, padYear, coordVars>>

\* extract_excel_data, line 14: read_excel raises; lines 46-48 print and return None
ExcelReadFails ==
    /\ prog = "excel" /\ pc = "read"
    /\ pc' = "returned None"
    /\ UNCHANGED <<batchVars, arg, res, res2, padYear, coordVars>>

\* one iteration of the loop of lines 23-36 on the sheet s; an exception in it
\* is caught at line 46, and line 48 returns None
ExcelSheet(s) ==
    /\ prog = "excel" /\ pc = "sheets" /\ Len(book) < MaxSheets
    /\ \A k \in 1..Len(book) : book[k] # s.name          \* the keys of a dict
    /\ book' = Append(book, s.name)
    /\ sheet' = s.name /\ cols' = s.cols /\ rows' = s.df
    /\ \/ /\ s.fault = "none"
          /\ files' = files \cup {CsvFilename(s.name)}                  \* line 31
          /\ properties' = properties \o ProcessSheetData(s.df, s.name, s.cols) \* line 36
          /\ pc' = "sheets"
       \/ /\ s.fault = "print"
          /\ pc' = "returned None"
          /\ UNCHANGED <<files, properties>>
       \/ /\ s.fault = "to_csv"
          \* the file may have been created before the write raised
          /\ files' \in {files, files \cup {CsvFilename(s.name)}}
          /\ pc' = "returned None"
          /\ UNCHANGED properties
    /\ UNCHANGED <<prog, tasks, failed, nextId, arg, res, res2, padYear, coordVars>>

\* lines 39-44: the consolidated file is written when there is a property, and
\* all_properties is returned
ExcelSave ==
    /\ prog = "excel" /\ pc = "sheets"
    /\ files' = IF properties # <<>> THEN files \cup {<<"a", "l", "l", "_", "p", "r", "o", "p", "e", "r", "t", "i", "e", "s", ".", "j", "s", "o", "n">>} ELSE files
    /\ pc' = "done"
    /\ UNCHANGED <<prog, sheet, cols, rows, properties, tasks, failed, nextId,
                   arg, res, res2, padYear, book, coordVars>>

NextSource ==
    \/ TridentRead
    \/ TridentReadFails
    \/ \E r \in TridentRows : TridentRow(r)
    \/ TridentSave
    \/ ExcelRead
    \/ ExcelReadFails
    \/ \E s \in BookSheets : ExcelSheet(s)
    \/ ExcelSave

SpecSource == InitSource /\ [][NextSource]_vars

-----------------------------------------------------------------------------
(* get_stl_coordinates called alone, over two runs of the script. hash() of a *)
(* str is salted per process: within a process it is a function of the text, *)
(* and a new process draws it anew.                                          *)

CoordAddresses == {<<"1", "2", " ", "E", "l", "m", " ", "S", "t">>, <<"7", " ", "O", "a", "k", " ", "A", "v", "e">>}

\* values of hash(address) % 1000
HashValues == {0, 7, 199, 999}

\* the hash functions a process can have
HashFunctions == [CoordAddresses -> HashValues]

\* lines 205-219, in millionths of a degree
GetStlCoordinates(address, hash) ==
    LET base_lat == 38627000
        base_lng == -90199400
        hash_val == hash[address] % 1000
        lat_offset == (hash_val % 100) * 1000 - 50000
        lng_offset == ((hash_val \div 100) % 100) * 1000 - 50000
    IN  [lat |-> base_lat + lat_offset, lng |-> base_lng + lng_offset]

InitCoords ==
    /\ NoBatch
    /\ pc = "input" /\ arg = NaN /\ res = None /\ res2 = None
    /\ padYear = TRUE
    /\ hashOf \in HashFunctions /\ run = 1 /\ coords = <<>>

\* line 107: coordinates = get_stl_coordinates(address)
CallGetStlCoordinates(address) ==
    /\ prog = "fn" /\ pc = "input" /\ Len(coords) < MaxCalls
    /\ coords' = Append(coords, [run |-> run, address |-> address,
                                 coordinates |-> GetStlCoordinates(address, hashOf)])
    /\ UNCHANGED <<batchVars, pc, arg, res, res2, padYear, hashOf, run>>

\* the script is run a second time, in a new process
NewRun ==
    /\ prog = "fn" /\ pc = "input" /\ run = 1
    /\ run' = run + 1
    /\ hashOf' \in HashFunctions
    /\ UNCHANGED <<batchVars, pc, arg, res, res2, padYear, coords>>

NextCoords ==
    \/ \E address \in CoordAddresses : CallGetStlCoordinates(address)
    \/ NewRun

SpecCoords == InitCoords /\ [][NextCoords]_vars

-----------------------------------------------------------------------------
(* Properties *)

\* the row number a property record was made from
RowOf(p) == IF prog = "trident" THEN p.row ELSE p.row_number

\* the positions in `properties` of the records made from row i
RecordsOfRow(i) == {k \in 1..Len(properties) : RowOf(properties[k]) = i}

\* the address cell of input row i: the Address column (trident), the column
\* the address synonyms resolve to, if any (extract)
RowAddress(i) ==
    IF prog = "trident" THEN rows[i].address
    ELSE LET c == ResolveColumn(address_fields, cols, 1)
         IN  IF c = 0 THEN NaN ELSE rows[i][c]

\* a cell that holds an address: not missing, not blank, not the text nan
HasAddress(cell) ==
    /\ ~IsNa(cell)
    /\ Strip(Str(cell)) # <<>>
    /\ Lower(Strip(Str(cell))) # <<"n", "a", "n">>

\* C1: every input row with a non-empty address has exactly one property record
\* in the output, and every row with an empty or missing address has none.
C1_OneRecordIffAddress ==
    prog \in {"trident", "extract"} =>
        \A i \in 1..Len(rows) :
            IF HasAddress(RowAddress(i))
            THEN Cardinality(RecordsOfRow(i)) = 1
            ELSE RecordsOfRow(i) = {}

\* the workflow type and the property type of a record; an extract record has
\* no property type
WorkflowOf(p) == IF prog = "trident" THEN p.workflowType ELSE p.workflow_type
PropertyTypeOf(p) == IF prog = "trident" THEN p.propertyType ELSE <<>>

FiveStatuses == {<<"A", "c", "t", "i", "v", "e">>, <<"H", "o", "l", "d">>, <<"U", "n", "d", "e", "r", " ", "C", "o", "n", "t", "r", "a", "c", "t">>, <<"P", "e", "n", "d", "i", "n", "g">>, <<"C", "l", "o", "s", "e", "d">>}

\* C3: the status of every emitted property record is one of Active, Hold,
\* Under Contract, Pending, Closed.
C3_StatusIsOneOfFive ==
    \A k \in 1..Len(properties) : properties[k].status \in FiveStatuses

\* the raw status text of input row i: the stripped text of the Status column
\* (trident, where a missing cell reads nan), the stripped text of the resolved
\* status column, empty when there is none (extract)
RawStatus(i) ==
    IF prog = "trident" THEN Strip(Str(rows[i].status))
    ELSE LET c == ResolveColumn(status_fields, cols, 1)
         IN  IF c = 0 THEN <<>> ELSE Strip(Str(FillNa(rows[i][c])))

\* the sheet-name hints, in the order they are looked for
SheetHints ==
    << <<<<"a", "c", "t", "i", "v", "e">>, <<"A", "c", "t", "i", "v", "e">>>>, <<<<"c", "o", "n", "t", "r", "a", "c", "t">>, <<"U", "n", "d", "e", "r", " ", "C", "o", "n", "t", "r", "a", "c", "t">>>>,
       <<<<"p", "e", "n", "d", "i", "n", "g">>, <<"P", "e", "n", "d", "i", "n", "g">>>>, <<<<"c", "l", "o", "s", "e", "d">>, <<"C", "l", "o", "s", "e", "d">>>> >>

\* the status of the first hint that the lower-cased sheet name contains, else Active
StatusFromSheetName(name) ==
    LET hit == {j \in 1..Len(SheetHints) : Contains(Lower(name), SheetHints[j][1])}
    IN  IF hit = {} THEN <<"A", "c", "t", "i", "v", "e">>
        ELSE SheetHints[CHOOSE j \in hit : \A h \in hit : j <= h][2]

IsNumericPrice(cell) ==
    /\ ~IsNa(cell)
    /\ LET t == Strip(RemoveChar(RemoveChar(Str(cell), "$"), ","))
           u == IF EndsWith(Lower(t), <<"k">>) THEN SubSeq(t, 1, Len(t) - 1) ELSE t
       IN  FloatParse(u).ok

\* C5: a price cell that is empty or not numeric gives an absent price field in
\* the emitted record: never zero, never the raw text.  (currentListPrice falls
\* back on the starting price by design, so it is absent when both cells are
\* non-numeric.)
C5_NonNumericPriceAbsent ==
    \A k \in 1..Len(properties) :
        LET p == properties[k]
            r == rows[RowOf(p)]
            c == ResolveColumn(price_fields, cols, 1)
        IN  /\ prog = "trident" =>
                  /\ (~IsNumericPrice(r.current) /\ ~IsNumericPrice(r.starting))
                        => p.currentListPrice = None
                  /\ ~IsNumericPrice(r.starting) => p.startingListPrice = None
                  /\ ~IsNumericPrice(r.uc) => p.underContractPrice = None
            /\ (prog = "extract" /\ c # 0 /\ ~IsNumericPrice(r[c]))
                  => p.list_price = None

\* C6: for every int n that parse_price returns, parse_price of the decimal text
\* of n returns n again.
C6_PriceIdempotent ==
    (prog = "fn" /\ pc = "reparsed") => (res2.t = "int" /\ res2.s = res.s)

\* 180k was parsed to 180000, and 180000 parsed again to 180000
C6_Witness ==
    /\ pc = "reparsed" /\ arg = Text(<<"1", "8", "0", "k">>)
    /\ res = PyInt(180000) /\ res2 = PyInt(180000)

\* a text in YYYY-MM-DD form: four digits, two digits, two digits, with hyphens
IsIsoForm(s) ==
    /\ Len(s) = 10
    /\ s[5] = "-" /\ s[8] = "-"
    /\ \A i \in {1, 2, 3, 4, 6, 7, 9, 10} : IsDigit(s[i])

IsoYear(s) == DigitsVal(SubSeq(s, 1, 4))
IsoMonth(s) == DigitsVal(SubSeq(s, 6, 7))
IsoDay(s) == DigitsVal(SubSeq(s, 9, 10))

\* a text in YYYY-MM-DD form that names a day of the calendar
IsCalendarDate(s) ==
    /\ IsoYear(s) >= 1
    /\ IsoMonth(s) \in 1..12
    /\ IsoDay(s) >= 1
    /\ IsoDay(s) <= (IF IsoMonth(s) = 2
                     THEN (IF IsoYear(s) % 4 = 0
                              /\ (IsoYear(s) % 100 # 0 \/ IsoYear(s) % 400 = 0)
                           THEN 29 ELSE 28)
                     ELSE IF IsoMonth(s) \in {4, 6, 9, 11} THEN 30 ELSE 31)

\* C7 as stated, read of the dates of the calendar: parse_date of any date
\* written in YYYY-MM-DD form is that text, and parse_date of any non-absent
\* output of parse_date is that output.
C7_IsoTextRoundTrip ==
    /\ (/\ prog = "fn" /\ pc \in {"parsed", "reparsed"}
        /\ arg.t = "str" /\ IsIsoForm(arg.s) /\ IsCalendarDate(arg.s))
          => res = arg
    /\ (prog = "fn" /\ pc = "reparsed") => res2 = res

\* C7 amended: parse_date of a text in YYYY-MM-DD form that names a calendar date
\* of a year from 1000 on is that text; parse_date of a non-absent output of
\* parse_date whose year is 1000 or later is that output.
C7_CalendarDateRoundTrip ==
    /\ (/\ prog = "fn" /\ pc \in {"parsed", "reparsed"}
        /\ arg.t = "str" /\ IsIsoForm(arg.s)
        /\ IsCalendarDate(arg.s) /\ IsoYear(arg.s) >= 1000)
          => res = arg
    /\ (prog = "fn" /\ pc = "reparsed" /\ DigitsVal(SplitOn(res.s, "-")[1]) >= 1000)
          => res2 = res

\* the leap day 2024-02-29 was parsed to itself, and again to itself
C7_Witness ==
    /\ pc = "reparsed" /\ arg = Text(<<"2", "0", "2", "4", "-", "0", "2", "-", "2", "9">>)
    /\ res = arg /\ res2 = arg

\* title, priority and category of the task of each status that has one
TaskTemplates ==
    { <<<<"H", "o", "l", "d">>, "Complete Pre-Listing Preparation", "High", "Listing Prep">>,
      <<<<"A", "c", "t", "i", "v", "e">>, "Monitor Active Listing Performance", "Medium", "Listing Prep">>,
      <<<<"U", "n", "d", "e", "r", " ", "C", "o", "n", "t", "r", "a", "c", "t">>, "Manage Contract Contingencies", "Urgent", "Under Contract">> }

\* the positions in `tasks` of the tasks of the property with this id
TasksOf(id) == {j \in 1..Len(tasks) : tasks[j].propertyId = id}

\* C8: each emitted property whose status is Hold, Active or Under Contract has
\* exactly one task, with the title, priority and category of that status and
\* its id as propertyId; a property of any other status has none; every task's
\* propertyId is the id of an emitted property.
C8_OneTaskPerQualifyingStatus ==
    prog = "trident" =>
        /\ \A k \in 1..Len(properties) :
              LET p == properties[k]
              IN  IF p.status \in {<<"H", "o", "l", "d">>, <<"A", "c", "t", "i", "v", "e">>, <<"U", "n", "d", "e", "r", " ", "C", "o", "n", "t", "r", "a", "c", "t">>}
                  THEN /\ Cardinality(TasksOf(p.id)) = 1
                       /\ \A j \in TasksOf(p.id) :
                             <<p.status, tasks[j].title, tasks[j].priority,
                               tasks[j].category>> \in TaskTemplates
                  ELSE TasksOf(p.id) = {}
        /\ \A j \in 1..Len(tasks) :
              \E k \in 1..Len(properties) : properties[k].id = tasks[j].propertyId
        /\ \A k1, k2 \in 1..Len(properties) :
              properties[k1].id = properties[k2].id => k1 = k2

\* an Active property with its one task beside a Closed property with none
C8_Witness ==
    /\ prog = "trident"
    /\ \E k1, k2 \in 1..Len(properties) :
          /\ properties[k1].status = <<"A", "c", "t", "i", "v", "e">>
          /\ Cardinality(TasksOf(properties[k1].id)) = 1
          /\ properties[k2].status = <<"C", "l", "o", "s", "e", "d">>
          /\ TasksOf(properties[k2].id) = {}

\* C9: a row whose processing raised an error has neither a property record nor
\* a task record in the output.
C9_FailedRowEmitsNothing ==
    \A i \in failed :
        /\ RecordsOfRow(i) = {}
        /\ \A k \in 1..Len(properties) :
              RowOf(properties[k]) = i => TasksOf(properties[k].id) = {}

\* the fields whose synonym some column label contains, then the earliest of
\* them, then the first column whose label contains it: 0 when there is none
FirstMatch(fields) ==
    LET has(k, c) == Contains(Lower(cols[c]), fields[k])
        matched == {k \in 1..Len(fields) : \E c \in 1..Len(cols) : has(k, c)}
        k0 == CHOOSE k \in matched : \A m \in matched : k <= m
        hits == {c \in 1..Len(cols) : has(k0, c)}
    IN  IF matched = {} THEN 0 ELSE CHOOSE c \in hits : \A h \in hits : c <= h

\* the stripped text of column c of input row i, after fillna('')
CellText(i, c) == Strip(Str(FillNa(rows[i][c])))

\* C10: each of address, client name, agent, price and status is taken from the
\* first column, in column order, whose lower-cased label contains the earliest
\* synonym of the field's list that any label contains; when no label contains a
\* synonym the field is left unset (and the status then takes the sheet default).
C10_FirstMatchWins ==
    prog = "extract" =>
        \A k \in 1..Len(properties) :
            LET p == properties[k]
                i == p.row_number
                text(c) == IF c = 0 THEN Unset ELSE Text(CellText(i, c))
                pc0 == FirstMatch(price_fields)
                sc0 == FirstMatch(status_fields)
            IN  /\ p.address = text(FirstMatch(address_fields))
                /\ p.client_name = text(FirstMatch(client_fields))
                /\ p.selling_agent = text(FirstMatch(agent_fields))
                /\ IF pc0 = 0 THEN p.list_price = Unset
                   ELSE p.list_price = SheetPrice(FillNa(rows[i][pc0]))
                /\ IF sc0 = 0 THEN p.status = StatusFromSheetName(sheet)
                   ELSE CellText(i, sc0) # <<>> => p.status = CellText(i, sc0)

\* the address came from the second column, Property Address, though the first,
\* Property Status, contains the later synonym property
C10_Witness ==
    /\ prog = "extract"
    /\ \E k \in 1..Len(properties) :
          /\ cols[1] = <<"P", "r", "o", "p", "e", "r", "t", "y", " ", "S", "t", "a", "t", "u", "s">> /\ cols[2] = <<"P", "r", "o", "p", "e", "r", "t", "y", " ", "A", "d", "d", "r", "e", "s", "s">>
          /\ properties[k].address = Text(<<"9", " ", "F", "i", "r", " ", "L", "n">>)
          /\ properties[k].status = <<"U", "C">>

\* the script ended in a whole-source failure
SourceFailed == pc \in {"raised", "returned None"}

\* C11: after a whole-source failure no output file exists: neither the CSV file
\* of a sheet handled before the failure nor a consolidated JSON file.
C11_FailureLeavesNoOutput ==
    SourceFailed =>
        /\ \A k \in 1..(Len(book) - 1) : CsvFilename(book[k]) \notin files
        /\ <<"a", "l", "l", "_", "p", "r", "o", "p", "e", "r", "t", "i", "e", "s", ".", "j", "s", "o", "n">> \notin files
        /\ <<"t", "r", "i", "d", "e", "n", "t", "_", "p", "r", "o", "p", "e", "r", "t", "i", "e", "s", ".", "j", "s", "o", "n">> \notin files

\* C12: two records with the same address have the same coordinates, within one
\* run and across two runs of the script.
C12_CoordinatesStable ==
    \A i, j \in 1..Len(coords) :
        coords[i].address = coords[j].address
            => coords[i].coordinates = coords[j].coordinates

\* the part of C12 within one run
CoordinatesStableWithinRun ==
    \A i, j \in 1..Len(coords) :
        coords[i].address = coords[j].address /\ coords[i].run = coords[j].run
            => coords[i].coordinates = coords[j].coordinates

=============================================================================
